---- MODULE Spec2Model ----
(***************************************************************************)
(* Model of src/src/scanner.rs: Scanner::run, scan_range, scan_port and    *)
(* connect.  run cuts start..end into chunks of batch_size ports; for each *)
(* chunk scan_range pushes one scan_port future per port into a            *)
(* FuturesUnordered and drains it; scan_port races a TCP connect against   *)
(* a timer, shuts an opened stream down, prints the port and returns it,   *)
(* panics on an error of kind Other and turns every other error into Err.  *)
(* The executor is single-threaded: one future is polled at a time, and a  *)
(* poll runs until the future awaits or completes.                         *)
(***************************************************************************)
EXTENDS Integers, Sequences, FiniteSets, TLC

\* Bounds of the model: start and end range over MinPort..MaxPort,
\* batch_size over 0..MaxBatch.
MinPort == 20
MaxPort == 26
MaxBatch == 4

VARIABLES
    start,       \* Scanner.start
    end,         \* Scanner.end
    batch_size,  \* Scanner.batch_size
    quiet,       \* Scanner.quiet
    reachable,   \* environment: the ports whose connect can succeed
    pc,          \* position of run: "run", "loop", "scan", "done", "panic"
    v,           \* the ports the Chunks iterator of run has not yielded yet
    range,       \* the chunk scan_range is working on
    ftrs,        \* scan_range's FuturesUnordered: port -> position of its scan_port future
    batch_open,  \* scan_range's local open_ports
    open_ports,  \* run's open_ports
    ret,         \* what run returned: <<"none">> or <<"ok", list>>
    streams,     \* ports whose TcpStream is connected and not shut down
    printed,     \* the "Open <port>" lines written to stdout, in order
    succeeded,   \* history: the ports whose connect returned Ok, in that order
    batches,     \* history: the chunks handed to scan_range, in order
    probes,      \* history: port -> number of connect attempts started for it
    outcome,     \* history: port -> "None" | "Open" | "Closed"
    timed_out,   \* history: ports whose timer fired before their connect settled
    exhausted,   \* history: ports whose connect failed with EMFILE
    fatal        \* history: NoFatal, or the port and OS error of the probe that panicked

vars == <<start, end, batch_size, quiet, reachable, pc, v, range, ftrs,
          batch_open, open_ports, ret, streams, printed, succeeded, batches,
          probes, outcome, timed_out, exhausted, fatal>>

config == <<start, end, batch_size, quiet, reachable>>

\* The port numbers a configuration of the model can name.
Ports == MinPort..MaxPort

NoFatal == [port |-> -1, errno |-> "none"]

NoReturn == <<"none">>

\* The OS errors a connect attempt can fail with.
Errno == {"ECONNREFUSED", "ECONNRESET", "ETIMEDOUT", "EHOSTUNREACH",
          "ENETDOWN", "EMFILE"}

\* e.kind() for an OS error e.  ErrorKind has a variant for a refused, a
\* reset and a timed-out connection; an OS error without a variant of its
\* own is decoded to the catch-all ErrorKind::Other.  That is how EMFILE
\* reaches the Other arm of scan_port, whose panic message names it ("Too
\* many open files"), and it is the kind of EHOSTUNREACH and ENETDOWN too.
kind(e) ==
    CASE e = "ECONNREFUSED" -> "ConnectionRefused"
      [] e = "ECONNRESET"   -> "ConnectionReset"
      [] e = "ETIMEDOUT"    -> "TimedOut"
      [] OTHER              -> "Other"

Min(a, b) == IF a < b THEN a ELSE b

\* Mutant of timeout_kind: the timeout reported with the kind that panics.
timeout_kind_other == "Other"

\* The kind of the error io::timeout returns when the timer fires first.
timeout_kind == "TimedOut"

\* Mutant of on_error: the Other arm swallowed like every other error.
on_error_swallow(k) == "Err"

\* The Err arm of scan_port: kind Other panics, every other kind is an Err
\* that scan_range discards.
on_error(k) == IF k = "Other" THEN "panic" ELSE "Err"

\* Mutant of collect: the inclusive range start..=end.
collect_inclusive(a, b) ==
    IF a <= b THEN [i \in 1..(b - a + 1) |-> a + i - 1] ELSE <<>>

\* Mutant of collect: a reversed range is scanned from end to start.
collect_swapped(a, b) ==
    IF a < b THEN [i \in 1..(b - a) |-> a + i - 1]
             ELSE [i \in 1..(a - b) |-> b + i - 1]

\* (self.start..self.end).collect(): empty when start >= end.
collect(a, b) == IF a < b THEN [i \in 1..(b - a) |-> a + i - 1] ELSE <<>>

\* Mutant of chunk_len: chunks one port longer than batch_size.
chunk_len_over(s, n) == Min(Len(s), n + 1)

\* Chunks::next: the length of the next chunk of the remaining slice s.
chunk_len(s, n) == Min(Len(s), n)

\* Mutant of chunk: the last port of every chunk left out.
chunk_short(s, n) == SubSeq(s, 1, Min(Len(s), n) - 1)

\* Mutant of chunk_rest: the port after every chunk skipped.
chunk_rest_skip(s, n) == SubSeq(s, Min(Len(s), n) + 2, Len(s))

\* Chunks::next: the chunk yielded and the slice left.
chunk(s, n) == SubSeq(s, 1, chunk_len(s, n))

chunk_rest(s, n) == SubSeq(s, chunk_len(s, n) + 1, Len(s))

Elems(s) == {s[i] : i \in 1..Len(s)}

\* Mutant of drained: scan_range returns once every future has been polled,
\* without waiting for the pending ones.
drained_early(f) == \A p \in DOMAIN f : f[p] # "new"

\* FuturesUnordered::next yields None: every future pushed has completed.
drained(f) == DOMAIN f = {}

\* A scan_port future is in the middle of a poll (past its connect, before
\* its return); nothing else runs until that poll ends.
polling == \E p \in DOMAIN ftrs : ftrs[p] \in {"ok", "shut", "told"}

\* FuturesUnordered polls new futures in the order they were pushed.
next_new == CHOOSE p \in DOMAIN ftrs :
                /\ ftrs[p] = "new"
                /\ \A q \in DOMAIN ftrs : ftrs[q] = "new" => p <= q

\* Mutant of complete: the completed future stays in the FuturesUnordered,
\* which then never yields None.
complete_kept(f, p) == [q \in DOMAIN f |-> IF q = p THEN "done" ELSE f[q]]

\* A future completes and leaves the FuturesUnordered.
complete(f, p) == [q \in (DOMAIN f) \ {p} |-> f[q]]

\* Mutant of chunks_ok: the chunk size is not checked.
chunks_unchecked(n) == TRUE

\* ports.chunks(n) panics unless n is non-zero.
chunks_ok(n) == n # 0

\* Mutant of shut_down: the stream is left open.
shut_down_noop(s, p) == s

\* x.shutdown(Shutdown::Both): the connection of port p is shut down.
shut_down(s, p) == s \ {p}

\* Mutant of report: the port is printed whatever quiet says.
report_always(q, out, p) == Append(out, p)

\* if !self.quiet { println!("Open {}", port) }.
report(q, out, p) == IF q THEN out ELSE Append(out, p)

\* Mutant of push: the port is put in front of the list.
push_front(list, p) == <<p>> \o list

\* open_ports.push(port) in scan_range.
push(list, p) == Append(list, p)

\* Mutant of append: the batch's list replaces run's list.
append_replace(list, more) == more

\* Mutant of append: the batch's list is put in front of run's list.
append_front(list, more) == more \o list

\* open_ports.append(&mut ports) in run.
append(list, more) == list \o more

\* Scanner::new takes any start, end and batch_size; run has not begun.
Created ==
    /\ start \in Ports
    /\ end \in Ports
    /\ batch_size \in 0..MaxBatch
    /\ quiet \in BOOLEAN
    /\ pc = "run"
    /\ v = <<>>
    /\ range = <<>>
    /\ ftrs = <<>>
    /\ batch_open = <<>>
    /\ open_ports = <<>>
    /\ ret = NoReturn
    /\ streams = {}
    /\ printed = <<>>
    /\ succeeded = <<>>
    /\ batches = <<>>
    /\ probes = [p \in Ports |-> 0]
    /\ outcome = [p \in Ports |-> "None"]
    /\ timed_out = {}
    /\ exhausted = {}
    /\ fatal = NoFatal

\* Every port may accept the connection; whether it does, fails or times
\* out is left to each step.
Init ==
    /\ Created
    /\ reachable = Ports

\* run, lines 54-57: collect the ports and build the Chunks iterator;
\* chunks(0) panics.
RunStart ==
    /\ pc = "run"
    /\ \/ /\ ~chunks_ok(batch_size)
          /\ pc' = "panic"
          /\ v' = v
       \/ /\ chunks_ok(batch_size)
          /\ pc' = "loop"
          /\ v' = collect(start, end)
    /\ UNCHANGED <<config, range, ftrs, batch_open, open_ports, ret, streams,
                   printed, succeeded, batches, probes, outcome, timed_out,
                   exhausted, fatal>>

\* run line 57-58 and scan_range lines 68-74: take the next chunk, push one
\* scan_port future per port, start with an empty list.
NextChunk ==
    /\ pc = "loop"
    /\ v # <<>>
    /\ range' = chunk(v, batch_size)
    /\ v' = chunk_rest(v, batch_size)
    /\ ftrs' = [p \in Elems(range') |-> "new"]
    /\ batch_open' = <<>>
    /\ batches' = Append(batches, range')
    /\ pc' = "scan"
    /\ UNCHANGED <<config, open_ports, ret, streams, printed, succeeded,
                   probes, outcome, timed_out, exhausted, fatal>>

\* scan_port lines 91-93 and connect line 123: the first poll of a future
\* starts its connect attempt and its timer.
StartProbe ==
    /\ pc = "scan"
    /\ ~polling
    /\ \E p \in DOMAIN ftrs : ftrs[p] = "new"
    /\ ftrs' = [ftrs EXCEPT ![next_new] = "connect"]
    /\ probes' = [probes EXCEPT ![next_new] = @ + 1]
    /\ UNCHANGED <<config, pc, v, range, batch_open, open_ports, ret, streams,
                   printed, succeeded, batches, outcome, timed_out,
                   exhausted, fatal>>

\* connect lines 123-125, scan_port line 94: the connect settles first, Ok.
ConnectOk(p) ==
    /\ pc = "scan"
    /\ ~polling
    /\ p \in DOMAIN ftrs
    /\ ftrs[p] = "connect"
    /\ p \in reachable
    /\ ftrs' = [ftrs EXCEPT ![p] = "ok"]
    /\ streams' = streams \cup {p}
    /\ succeeded' = Append(succeeded, p)
    /\ UNCHANGED <<config, pc, v, range, batch_open, open_ports, ret, printed,
                   batches, probes, outcome, timed_out, exhausted, fatal>>

\* scan_port line 97: x.shutdown(Shutdown::Both).
Shutdown(p) ==
    /\ pc = "scan"
    /\ p \in DOMAIN ftrs
    /\ ftrs[p] = "ok"
    /\ ftrs' = [ftrs EXCEPT ![p] = "shut"]
    /\ streams' = shut_down(streams, p)
    /\ UNCHANGED <<config, pc, v, range, batch_open, open_ports, ret, printed,
                   succeeded, batches, probes, outcome, timed_out,
                   exhausted, fatal>>

\* scan_port lines 100-102: print the port unless quiet.
Notify(p) ==
    /\ pc = "scan"
    /\ p \in DOMAIN ftrs
    /\ ftrs[p] = "shut"
    /\ ftrs' = [ftrs EXCEPT ![p] = "told"]
    /\ printed' = report(quiet, printed, p)
    /\ UNCHANGED <<config, pc, v, range, batch_open, open_ports, ret, streams,
                   succeeded, batches, probes, outcome, timed_out,
                   exhausted, fatal>>

\* scan_port line 106 and scan_range lines 75-77: the future returns
\* Ok(port), next() yields it and the port is pushed.
ProbeOk(p) ==
    /\ pc = "scan"
    /\ p \in DOMAIN ftrs
    /\ ftrs[p] = "told"
    /\ ftrs' = complete(ftrs, p)
    /\ batch_open' = push(batch_open, p)
    /\ outcome' = [outcome EXCEPT ![p] = "Open"]
    /\ UNCHANGED <<config, pc, v, range, open_ports, ret, streams, printed,
                   succeeded, batches, probes, timed_out, exhausted, fatal>>

\* scan_port lines 108-113 and scan_range line 78 for an error of kind k
\* that the probe of port p got from OS error e ("timer" for the timeout).
ProbeErr(p, e, k) ==
    /\ pc = "scan"
    /\ ~polling
    /\ p \in DOMAIN ftrs
    /\ ftrs[p] = "connect"
    /\ \/ /\ on_error(k) = "panic"
          /\ pc' = "panic"
          /\ fatal' = [port |-> p, errno |-> e]
          /\ UNCHANGED <<ftrs, outcome>>
       \/ /\ on_error(k) = "Err"
          /\ ftrs' = complete(ftrs, p)
          /\ outcome' = [outcome EXCEPT ![p] = "Closed"]
          /\ UNCHANGED <<pc, fatal>>
    /\ exhausted' = IF e = "EMFILE" THEN exhausted \cup {p} ELSE exhausted
    /\ UNCHANGED <<config, v, range, batch_open, open_ports, ret, streams,
                   printed, succeeded, batches, probes>>

\* connect line 123: the connect settles first with an OS error.
ConnectErr(p) ==
    /\ \E e \in Errno : ProbeErr(p, e, kind(e))
    /\ UNCHANGED timed_out

\* connect line 123: the timer of io::timeout fires first.
Timeout(p) ==
    /\ ProbeErr(p, "timer", timeout_kind)
    /\ timed_out' = timed_out \cup {p}

\* scan_range lines 75 and 84, run line 59: the FuturesUnordered is empty,
\* scan_range returns its list and run appends it, which empties it.
ScanRangeReturn ==
    /\ pc = "scan"
    /\ drained(ftrs)
    /\ open_ports' = append(open_ports, batch_open)
    /\ batch_open' = <<>>
    /\ pc' = "loop"
    /\ UNCHANGED <<config, v, range, ftrs, ret, streams, printed, succeeded,
                   batches, probes, outcome, timed_out, exhausted, fatal>>

\* run line 62: the chunks are exhausted, run returns open_ports.
RunReturn ==
    /\ pc = "loop"
    /\ v = <<>>
    /\ ret' = <<"ok", open_ports>>
    /\ pc' = "done"
    /\ UNCHANGED <<config, v, range, ftrs, batch_open, open_ports, streams,
                   printed, succeeded, batches, probes, outcome, timed_out,
                   exhausted, fatal>>

Next ==
    \/ RunStart
    \/ NextChunk
    \/ StartProbe
    \/ \E p \in Ports : ConnectOk(p)
    \/ \E p \in Ports : Shutdown(p)
    \/ \E p \in Ports : Notify(p)
    \/ \E p \in Ports : ProbeOk(p)
    \/ \E p \in Ports : ConnectErr(p)
    \/ \E p \in Ports : Timeout(p)
    \/ ScanRangeReturn
    \/ RunReturn

Spec == Init /\ [][Next]_vars

\* The steps of the program itself: the executor keeps polling run.
Step ==
    \/ RunStart
    \/ NextChunk
    \/ StartProbe
    \/ \E p \in Ports : Shutdown(p)
    \/ \E p \in Ports : Notify(p)
    \/ \E p \in Ports : ProbeOk(p)
    \/ ScanRangeReturn
    \/ RunReturn

\* A started probe settles: its connect completes or its timer fires.
Settle ==
    \E p \in Ports : ConnectOk(p) \/ ConnectErr(p) \/ Timeout(p)

\* The executor is fair to run, and the timer of io::timeout fires after
\* self.timeout at the latest, so a pending probe does settle.
LiveSpec == Init /\ [][Next]_vars /\ WF_vars(Step) /\ WF_vars(Settle)

\* The outcome of every probe is fixed before run begins: the connect to a
\* port of reachable succeeds before the timer fires, the connect to any
\* other port fails or times out.
InitFixed ==
    /\ Created
    /\ reachable \in SUBSET {p \in Ports : start <= p /\ p < end}

NextFixed ==
    \/ Step
    \/ \E p \in Ports : ConnectOk(p)
    \/ \E p \in Ports \ reachable : ConnectErr(p)
    \/ \E p \in Ports \ reachable : Timeout(p)

FixedSpec == InitFixed /\ [][NextFixed]_vars

TypeOK ==
    /\ start \in Ports /\ end \in Ports
    /\ batch_size \in 0..MaxBatch
    /\ quiet \in BOOLEAN
    /\ pc \in {"run", "loop", "scan", "done", "panic"}
    /\ DOMAIN ftrs \subseteq Ports
    /\ \A p \in DOMAIN ftrs : ftrs[p] \in {"new", "connect", "ok", "shut", "told"}
    /\ streams \subseteq Ports
    /\ timed_out \subseteq Ports

(***************************************************************************)
(* Vocabulary of the properties.                                           *)
(***************************************************************************)

\* The ports of [start, end).
RangePorts == {p \in Ports : start <= p /\ p < end}

\* The number of the batch a port of the range falls in, counted from 0.
BatchOf(p) == (p - start) \div batch_size

\* The probes started and not yet resolved.
InFlight == {p \in DOMAIN ftrs : ftrs[p] # "new"}

\* The list run returned.
Returned == ret[2]

\* The ports whose probe resolved Open.
OpenSet == {p \in Ports : outcome[p] = "Open"}

NoDuplicates(s) == \A i, j \in 1..Len(s) : s[i] = s[j] => i = j

\* C1: with batch_size >= 1, the number of probes started and not yet
\* resolved never exceeds batch_size.
C1_InFlightBounded ==
    batch_size >= 1 => Cardinality(InFlight) <= batch_size

C1_Witness ==
    /\ batch_size >= 2
    /\ Cardinality(InFlight) = batch_size
    /\ Len(batches) >= 2

\* C2: the probes that exist at any moment all belong to one batch, and
\* every port of an earlier batch has resolved before any of them was
\* created.
C2_BatchBarrier ==
    batch_size >= 1 =>
        \A p \in DOMAIN ftrs :
            /\ \A q \in DOMAIN ftrs : BatchOf(q) = BatchOf(p)
            /\ \A q \in RangePorts :
                   BatchOf(q) < BatchOf(p) => outcome[q] \in {"Open", "Closed"}

C2_Witness ==
    /\ batch_size >= 2
    /\ \E p \in DOMAIN ftrs : BatchOf(p) >= 1 /\ ftrs[p] = "new"
    /\ \E q \in RangePorts : BatchOf(q) = 0 /\ q \in timed_out

\* C3: once a probe has met resource exhaustion, run has panicked: no probe
\* is started afterwards, in the current batch or in a later one, no probe
\* is ever started twice, and run returns nothing, the ports found open in
\* earlier batches included.
C3_FatalAborts ==
    /\ [](exhausted # {} => pc = "panic" /\ ret = NoReturn)
    /\ [](\A p \in Ports : probes[p] <= 1)
    /\ [][exhausted # {} => probes' = probes /\ ret' = NoReturn]_vars

C3_Witness ==
    /\ exhausted # {}
    /\ open_ports # <<>>
    /\ \E p \in DOMAIN ftrs : ftrs[p] = "new"
    /\ v # <<>>

\* C4: when run has returned, every port of [start, end) has been probed
\* exactly once, and no other port has been probed.
C4_ProbedExactlyOnce ==
    pc = "done" =>
        \A p \in Ports : probes[p] = IF p \in RangePorts THEN 1 ELSE 0

C4_Witness ==
    /\ pc = "done"
    /\ Cardinality(RangePorts) >= 4
    /\ batch_size = 2
    /\ timed_out # {}
    /\ \E p \in RangePorts : outcome[p] = "Closed" /\ p \notin timed_out

\* C5: the list run returns holds exactly the ports of [start, end) whose
\* probe resolved Open, each once; for start=20, end=25, batch_size=2 with
\* only 21 and 24 open it is [21, 24].
C5_ReturnsOpenPorts ==
    pc = "done" =>
        /\ ret[1] = "ok"
        /\ Elems(Returned) = OpenSet \cap RangePorts
        /\ NoDuplicates(Returned)
        /\ (start = 20 /\ end = 25 /\ batch_size = 2 /\ OpenSet = {21, 24})
               => Returned = <<21, 24>>

C5_Witness ==
    /\ pc = "done"
    /\ start = 20 /\ end = 25 /\ batch_size = 2
    /\ OpenSet = {21, 24}
    /\ Returned = <<21, 24>>

\* C6: in the returned list a port of an earlier batch stands before a port
\* of a later batch.
C6_BatchOrder ==
    (pc = "done" /\ batch_size >= 1) =>
        \A i, j \in 1..Len(Returned) :
            BatchOf(Returned[i]) < BatchOf(Returned[j]) => i < j

C6_Witness ==
    /\ pc = "done"
    /\ Len(Returned) >= 3
    /\ BatchOf(Returned[2]) < BatchOf(Returned[3])
    /\ BatchOf(Returned[1]) = BatchOf(Returned[2])
    /\ Returned[1] > Returned[2]

\* C7: for start <= end and batch_size >= 1, the i-th batch is the slice of
\* [start, end) that begins at start + (i-1)*batch_size and has batch_size
\* ports, or the non-empty remainder if fewer are left; when run returns,
\* the batches cover the range.
C7_Partition ==
    (start <= end /\ batch_size >= 1) =>
        /\ \A i \in 1..Len(batches) :
               /\ Len(batches[i]) = Min(batch_size, (end - start) - (i - 1) * batch_size)
               /\ Len(batches[i]) >= 1
               /\ \A j \in 1..Len(batches[i]) :
                      batches[i][j] = start + (i - 1) * batch_size + (j - 1)
        /\ pc = "done" =>
               Len(batches) = ((end - start) + batch_size - 1) \div batch_size

C7_Witness ==
    /\ pc = "done"
    /\ batch_size >= 2
    /\ Len(batches) >= 2
    /\ Len(batches[Len(batches)]) < batch_size

C9_TimeoutIsClosed ==
    \A p \in timed_out :
        /\ outcome[p] = "Closed"
        /\ p \notin DOMAIN ftrs
        /\ p \notin Elems(batch_open) \cup Elems(open_ports)
        /\ ret # NoReturn => p \notin Elems(Returned)
        /\ p \notin Elems(printed)
        /\ p \notin streams
        /\ fatal.port # p

C9_Witness ==
    /\ pc = "done"
    /\ ~quiet
    /\ timed_out # {}
    /\ Returned # <<>>
    /\ \E p \in timed_out : \E q \in Elems(Returned) : BatchOf(p) = BatchOf(q)

\* C10: a connect failure other than resource exhaustion never aborts run:
\* the probe that made run panic failed with EMFILE.
C10_OnlyExhaustionAborts ==
    fatal # NoFatal => fatal.errno = "EMFILE"

\* C11: with batch_size >= 1, if the executor keeps running and every
\* started probe settles, run ends: it returns its list with every batch
\* drained, or a probe's panic has aborted it.
C11_RunTerminates ==
    batch_size >= 1 =>
        <>(\/ pc = "done" /\ ret[1] = "ok" /\ v = <<>> /\ drained(ftrs)
           \/ pc = "panic" /\ fatal # NoFatal)

C11_Witness ==
    /\ pc = "done"
    /\ Len(batches) >= 3
    /\ timed_out # {}
    /\ OpenSet # {}

\* The position of x in the sequence s.
Pos(s, x) == CHOOSE i \in 1..Len(s) : s[i] = x

\* C12: with quiet nothing is printed; without it every port is printed
\* once, right after its connect succeeded and before it is pushed to the
\* list; and the list is the ports in the order their connects succeeded,
\* whatever quiet is.
C12_Notifications ==
    /\ quiet => printed = <<>>
    /\ ~quiet =>
           /\ NoDuplicates(printed)
           /\ Elems(printed) =
                  OpenSet \cup {p \in DOMAIN ftrs : ftrs[p] = "told"}
           /\ Elems(succeeded) \ Elems(printed) \subseteq
                  {p \in DOMAIN ftrs : ftrs[p] \in {"ok", "shut"}}
           /\ Elems(open_ports) \cup Elems(batch_open) \subseteq Elems(printed)
    /\ Len(open_ports \o batch_open) <= Len(succeeded)
    /\ open_ports \o batch_open =
           SubSeq(succeeded, 1, Len(open_ports \o batch_open))
    /\ pc = "done" => Returned = succeeded

C12_Witness ==
    /\ ~quiet
    /\ open_ports # <<>>
    /\ batch_open # <<>>
    /\ \E p \in DOMAIN ftrs :
           /\ ftrs[p] = "told"
           /\ p \in Elems(printed)
           /\ p \notin Elems(batch_open)

\* C13: two open ports of one batch stand in the returned list in the
\* order in which their probes succeeded.
C13_CompletionOrder ==
    (pc = "done" /\ batch_size >= 1) =>
        \A p1, p2 \in Elems(Returned) :
            (/\ BatchOf(p1) = BatchOf(p2)
             /\ p1 \in Elems(succeeded) /\ p2 \in Elems(succeeded)
             /\ Pos(succeeded, p1) < Pos(succeeded, p2))
                => Pos(Returned, p1) < Pos(Returned, p2)

C13_Witness ==
    /\ pc = "done"
    /\ \E p1, p2 \in Elems(Returned) :
           /\ BatchOf(p1) = BatchOf(p2)
           /\ p1 > p2
           /\ Pos(succeeded, p1) < Pos(succeeded, p2)
           /\ Pos(Returned, p1) < Pos(Returned, p2)

\* C14: a stream is open only between its connect and its shutdown, which
\* comes before the probe returns its port; no stream is open between
\* batches or when run has returned; at most batch_size are open at once.
C14_StreamsShutDown ==
    /\ \A p \in streams : p \in DOMAIN ftrs /\ ftrs[p] = "ok"
    /\ streams \cap (OpenSet \cup Elems(batch_open) \cup Elems(open_ports)) = {}
    /\ pc \in {"loop", "done"} => streams = {}
    /\ batch_size >= 1 => Cardinality(streams) <= batch_size

C14_Witness ==
    /\ Len(batches) >= 2
    /\ open_ports # <<>>
    /\ \E p \in DOMAIN ftrs : ftrs[p] = "shut" /\ p \notin streams
    /\ \E q \in DOMAIN ftrs : ftrs[q] = "connect"

\* C15: with the outcome of every probe fixed, the ports run returns are
\* the reachable ports of the range, whatever batch_size and the order of
\* completion; with batch_size = 1 they are in ascending order.
C15_SetIndependent ==
    pc = "done" =>
        /\ Elems(Returned) = reachable \cap RangePorts
        /\ Len(Returned) = Cardinality(reachable \cap RangePorts)
        /\ batch_size = 1 =>
               \A i, j \in 1..Len(Returned) : i < j => Returned[i] < Returned[j]

C15_Witness ==
    /\ pc = "done"
    /\ batch_size >= 2
    /\ timed_out # {}
    /\ Elems(Returned) = reachable
    /\ \E i, j \in 1..Len(Returned) : i < j /\ Returned[i] > Returned[j]

\* C16: no port outside [start, end) is ever probed: not end, not a port
\* below start, and so never the largest port end can be.
C16_OnlyRangeProbed ==
    /\ \A p \in Ports \ RangePorts : probes[p] = 0 /\ p \notin DOMAIN ftrs
    /\ probes[end] = 0
    /\ probes[MaxPort] = 0

C16_Witness ==
    /\ pc = "done"
    /\ MinPort < start
    /\ end = MaxPort
    /\ probes[start] = 1
    /\ probes[end - 1] = 1
    /\ start < end - 1

\* C17: with batch_size = 0 run panics at its first step, whatever start
\* and end are: no probe is started, no batch formed, nothing returned.
C17_ZeroBatchAborts ==
    /\ [](batch_size = 0 =>
             /\ pc \in {"run", "panic"}
             /\ \A p \in Ports : probes[p] = 0
             /\ batches = <<>> /\ ftrs = <<>>
             /\ ret = NoReturn)
    /\ [][batch_size = 0 => pc' = "panic"]_vars

C17_Witness ==
    /\ batch_size = 0
    /\ start = end
    /\ pc = "panic"

\* C18: with start > end and batch_size >= 1 run starts no probe, does not
\* abort, and what it returns is the empty list.
C18_ReversedRange ==
    (start > end /\ batch_size >= 1) =>
        /\ \A p \in Ports : probes[p] = 0
        /\ batches = <<>>
        /\ pc # "panic"
        /\ pc = "done" => ret = <<"ok", <<>>>>

C18_Witness ==
    /\ start > end
    /\ batch_size >= 1
    /\ pc = "done"
    /\ ret = <<"ok", <<>>>>
====
